---- MODULE Spec2Model ----
(***************************************************************************)
(* typed-config: getConfigGetter (src/src/index.ts).                       *)
(*                                                                         *)
(* JavaScript values are records with the same five fields, so that any    *)
(* two of them can be compared:                                            *)
(*   t  the kind: "undefined", "null", "number", "boolean", "string",      *)
(*      "array", "object", or "throw" for an exception in flight           *)
(*   n  the payload of a number or boolean (0 = false, 1 = true)           *)
(*   s  the payload of a string, or the message of an exception            *)
(*   a  the elements of an array                                           *)
(*   o  the own properties of an object, a function from key strings       *)
(* An own property holding undefined reads like an absent one everywhere   *)
(* in index.ts, so objects never hold undefined members here.              *)
(***************************************************************************)
EXTENDS Integers, Sequences, FiniteSets, TLC

VARIABLES
    pc,                 \* position in getConfigGetter / the harness
    options,            \* the options bundle after the defaults of lines 113-118
    argv,               \* what yargs-parser returns for process.argv
    env,                \* process.env.CONFIG_JSON_FILE
    files,              \* the file system: path -> "absent" | "invalid" | "valid"
    content,            \* the JSON document held by every valid file
    schema,             \* the schema handed to getConfigGetter
    parsedCommandLine,  \* line 122
    configJsonFile,     \* line 144
    rawData,            \* line 149
    defaults,           \* line 154
    prefixedRaw,        \* line 155
    merged,             \* line 156
    data,               \* line 157
    trace,              \* the observable effects so far, in order
    thrown,             \* the exception that left getConfigGetter, or Undefined
    exitCode,           \* the code given to process.exit, or -1
    call,               \* the accessor call in progress: [key, defaultValue]
    result,             \* what the accessor call returned or threw
    valueA,             \* merge harness: first operand
    valueB,             \* merge harness: second operand
    valueC,             \* merge harness: third operand
    atKey,              \* merge harness: the key the operands sit at
    mergeOut            \* merge harness: the results

vars == <<pc, options, argv, env, files, content, schema, parsedCommandLine,
          configJsonFile, rawData, defaults, prefixedRaw, merged, data, trace,
          thrown, exitCode, call, result, valueA, valueB, valueC, atKey,
          mergeOut>>

progVars == <<options, argv, env, files, content, schema, parsedCommandLine,
              configJsonFile, rawData, defaults, prefixedRaw, merged, data, trace,
              thrown, exitCode, call, result>>

harnessVars == <<valueA, valueB, valueC, atKey, mergeOut>>

----------------------------------------------------------------------------
(* Bounds *)

\* Longest array among the inputs.
MaxLen == 2

----------------------------------------------------------------------------
(* JavaScript values *)

NoProps == [k \in {} |-> 0]

Undefined == [t |-> "undefined", n |-> 0, s |-> "", a |-> <<>>, o |-> NoProps]

Null == [t |-> "null", n |-> 0, s |-> "", a |-> <<>>, o |-> NoProps]

Num(i) == [t |-> "number", n |-> i, s |-> "", a |-> <<>>, o |-> NoProps]

Bool(b) == [t |-> "boolean", n |-> IF b THEN 1 ELSE 0, s |-> "", a |-> <<>>, o |-> NoProps]

Str(x) == [t |-> "string", n |-> 0, s |-> x, a |-> <<>>, o |-> NoProps]

Arr(items) == [t |-> "array", n |-> 0, s |-> "", a |-> items, o |-> NoProps]

Obj(props) == [t |-> "object", n |-> 0, s |-> "", a |-> <<>>, o |-> props]

Throw(message) == [t |-> "throw", n |-> 0, s |-> message, a |-> <<>>, o |-> NoProps]

EmptyObject == Obj(NoProps)

IsThrown(v) == v.t = "throw"

IsArray(v) == v.t = "array"

IsMapping(v) == v.t = "object"

\* The typeof operator.
TypeOf(v) ==
    CASE v.t = "undefined" -> "undefined"
      [] v.t = "number" -> "number"
      [] v.t = "boolean" -> "boolean"
      [] v.t = "string" -> "string"
      [] OTHER -> "object"

\* ToBoolean: what `!!v`, `v && ..`, `v || ..` and `if (v)` test.
Truthy(v) ==
    CASE v.t = "undefined" -> FALSE
      [] v.t = "null" -> FALSE
      [] v.t = "number" -> v.n # 0
      [] v.t = "boolean" -> v.n = 1
      [] v.t = "string" -> v.s # ""
      [] OTHER -> TRUE

\* String(i) for an array index.
IndexNames == <<"0", "1", "2", "3", "4", "5", "6", "7", "8", "9", "10", "11",
                "12", "13", "14", "15", "16", "17", "18", "19">>

IndexString(i) == IF i < Len(IndexNames) THEN IndexNames[i + 1] ELSE "big"

\* The order in which the own keys of an object are enumerated: integer keys
\* ascending, then the other keys in insertion order.  The inputs are written
\* with their keys in this order.
KeyOrder == IndexNames \o <<"_", "a", "b", "apps", "x", "v", "help", "print-config",
                            "printConfig", "config-json-file", "configJsonFile">>

\* The documents' strings have at most one character, so the character at
\* any index of one is the string itself.
IndexKeys(len) == [i \in 1..len |-> IndexString(i - 1)]

HasIndex(len, k) == \E i \in 1..len : IndexString(i - 1) = k

IndexOf(len, k) == CHOOSE i \in 1..len : IndexString(i - 1) = k

\* value[k] for a value that is neither undefined nor null; members of the
\* built-in prototypes other than length are left out.
Member(value, k) ==
    CASE value.t = "object" ->
            IF k \in DOMAIN value.o THEN value.o[k] ELSE Undefined
      [] value.t = "array" ->
            IF k = "length" THEN Num(Len(value.a))
            ELSE IF HasIndex(Len(value.a), k) THEN value.a[IndexOf(Len(value.a), k)]
            ELSE Undefined
      [] value.t = "string" ->
            IF k = "length" THEN Num(Len(value.s))
            ELSE IF HasIndex(Len(value.s), k) THEN value
            ELSE Undefined
      [] OTHER -> Undefined

\* acc?.[k]
OptionalMember(acc, k) ==
    IF acc.t \in {"undefined", "null"} THEN Undefined ELSE Member(acc, k)

\* path.split('.').reduce((acc, k) => acc?.[k], root), the path already split.
RECURSIVE Walk(_, _)
Walk(root, segments) ==
    IF segments = <<>> THEN root
    ELSE Walk(OptionalMember(root, Head(segments)), Tail(segments))

----------------------------------------------------------------------------
(* lodash mergeWith, as far as index.ts uses it, and deepConfigMerge *)

\* lodash keysIn(source): the keys baseMerge visits, in order.
KeysIn(source) ==
    CASE source.t = "object" -> SelectSeq(KeyOrder, LAMBDA k : k \in DOMAIN source.o)
      [] source.t = "array" -> IndexKeys(Len(source.a))
      [] source.t = "string" -> IndexKeys(Len(source.s))
      [] OTHER -> <<>>

\* lodash assignMergeValue(object, key, value).
AssignMergeValue(object, key, value) ==
    IF value = Undefined THEN object
    ELSE Obj([k \in DOMAIN object.o \cup {key} |-> IF k = key THEN value ELSE object.o[k]])

\* Array.prototype.concat(...args): an argument that is an array contributes
\* its elements, any other argument itself.
RECURSIVE Concat(_, _)
Concat(items, args) ==
    IF args = <<>> THEN items
    ELSE Concat(IF IsArray(Head(args)) THEN items \o Head(args).a
                ELSE Append(items, Head(args)),
                Tail(args))

RECURSIVE deepConfigMerge(_, _, _)
RECURSIVE baseMerge(_, _, _)
RECURSIVE MergeSources(_, _)

\* lodash baseMerge(object, source, .., customizer) with deepConfigMerge as the
\* customizer, over the keys still to visit.  deepConfigMerge returns undefined
\* only for an undefined valueB, so lodash's own deep merge is never taken.
baseMerge(object, source, keys) ==
    IF keys = <<>> THEN object
    ELSE LET key == Head(keys)
             newValue == deepConfigMerge(Member(object, key), Member(source, key), key)
         IN  IF IsThrown(newValue) THEN newValue
             ELSE baseMerge(AssignMergeValue(object, key, newValue), source, Tail(keys))

\* lodash createAssigner: the sources are merged into object from left to
\* right, and a falsy source is skipped.
MergeSources(object, sources) ==
    IF sources = <<>> \/ IsThrown(object) THEN object
    ELSE LET source == Head(sources)
         IN  MergeSources(IF Truthy(source) THEN baseMerge(object, source, KeysIn(source))
                          ELSE object,
                          Tail(sources))

\* mergeWith({}, ...sources, deepConfigMerge)
mergeWith(sources) == MergeSources(EmptyObject, sources)

\* deepConfigMerge with a null override replacing a mapping instead of being
\* merged into it.
deepConfigMerge_NullReplaces(objValue, srcValue, key) ==
    IF objValue = Undefined THEN srcValue
    ELSE IF srcValue = Undefined THEN objValue
    ELSE IF IsArray(objValue) THEN
        Arr(Concat(objValue.a, IF IsArray(srcValue) THEN srcValue.a ELSE <<srcValue>>))
    ELSE IF TypeOf(objValue) = "object" /\ objValue # Null /\ srcValue # Null THEN
        IF TypeOf(srcValue) # "object"
        THEN Throw("Cannot merge " \o key \o " into an object from type " \o TypeOf(srcValue))
        ELSE mergeWith(<<objValue, srcValue>>)
    ELSE srcValue

deepConfigMerge(objValue, srcValue, key) ==
    IF objValue = Undefined THEN srcValue
    ELSE IF srcValue = Undefined THEN objValue
    ELSE IF IsArray(objValue) THEN
        Arr(Concat(objValue.a, IF IsArray(srcValue) THEN srcValue.a ELSE <<srcValue>>))
    ELSE IF TypeOf(objValue) = "object" /\ objValue # Null THEN
        IF TypeOf(srcValue) # "object"
        THEN Throw("Cannot merge " \o key \o " into an object from type " \o TypeOf(srcValue))
        ELSE mergeWith(<<objValue, srcValue>>)
    ELSE srcValue

----------------------------------------------------------------------------
(* The values the inputs are drawn from *)

SeqsUpTo(S, n) == UNION {[1..k -> S] : k \in 0..n}

ObjectsOver(K, M) == {Obj(f) : f \in UNION {[S -> M] : S \in SUBSET K}}

Scalars == {Null, Num(1), Num(2), Str("s")}

Elements == {Num(1), Num(2), Arr(<<Num(2)>>)}

Arrays == {Arr(items) : items \in SeqsUpTo(Elements, MaxLen)}

Members == {Null, Num(1), Arr(<<Num(1)>>)}

Inner == ObjectsOver({"a"}, Members)

Objects == ObjectsOver({"a", "b"}, Members \cup Inner)

Values == {Undefined} \cup Scalars \cup Arrays \cup Objects

ThirdValues == {Undefined, Null, Num(3), Arr(<<Num(3)>>), Obj([k \in {"a"} |-> Num(3)]),
                Obj([k \in {"a"} |-> Obj([j \in {"b"} |-> Num(3)])])}

----------------------------------------------------------------------------
(* The merge harness: deepConfigMerge applied to two and to three values *)

\* merge(x, y) where x or y may itself be a merge that threw.
Merge(x, y, k) ==
    IF IsThrown(x) THEN x ELSE IF IsThrown(y) THEN y ELSE deepConfigMerge(x, y, k)

NoCall == [key |-> "", defaultValue |-> Undefined]

NoMerge == [ab |-> Undefined, bc |-> Undefined, left |-> Undefined, right |-> Undefined]

Idle ==
    /\ options = Undefined /\ argv = Undefined /\ env = Undefined
    /\ files = Undefined /\ content = Undefined /\ schema = Undefined
    /\ parsedCommandLine = Undefined /\ configJsonFile = Undefined
    /\ rawData = Undefined /\ defaults = Undefined /\ prefixedRaw = Undefined
    /\ merged = Undefined /\ data = Undefined /\ trace = <<>>
    /\ thrown = Undefined /\ exitCode = -1 /\ call = NoCall /\ result = Undefined

MergeInit ==
    /\ pc = "merge"
    /\ valueA \in Values
    /\ valueB \in Values
    /\ valueC \in ThirdValues
    /\ atKey \in {"a", "b"}
    /\ mergeOut = NoMerge
    /\ Idle

MergePair ==
    /\ pc = "merge"
    /\ pc' = "paired"
    /\ mergeOut' = [mergeOut EXCEPT !.ab = Merge(valueA, valueB, atKey),
                                    !.bc = Merge(valueB, valueC, atKey)]
    /\ UNCHANGED <<progVars, valueA, valueB, valueC, atKey>>

MergeTriple ==
    /\ pc = "paired"
    /\ pc' = "tripled"
    /\ mergeOut' = [mergeOut EXCEPT !.left = Merge(mergeOut.ab, valueC, atKey),
                                    !.right = Merge(valueA, mergeOut.bc, atKey)]
    /\ UNCHANGED <<progVars, valueA, valueB, valueC, atKey>>

MergeNext == MergePair \/ MergeTriple

MergeSpec == MergeInit /\ [][MergeNext]_vars

----------------------------------------------------------------------------
(* getConfigGetter: its collaborators *)

\* a || b
Or(a, b) == IF Truthy(a) THEN a ELSE b

\* a && b
And(a, b) == IF Truthy(a) THEN b ELSE a

\* a ?? b
Nullish(a, b) == IF a.t \in {"undefined", "null"} THEN b ELSE a

\* String.prototype.split('.') on the dotted paths the inputs use.
Split(path) ==
    CASE path = "apps" -> <<"apps">>
      [] path = "apps.x" -> <<"apps", "x">>
      [] path = "apps.0" -> <<"apps", "0">>
      [] path = "apps.length" -> <<"apps", "length">>
      [] path = "apps.x.v" -> <<"apps", "x", "v">>
      [] path = "v.x" -> <<"v", "x">>
      [] OTHER -> <<path>>

\* yargs-parser on an argument vector, given by what the vector holds: the bare
\* positionals, whether --help and --print-config are there, the value of
\* --config-json-file ("" when not there) and the --<key> <value> overrides.
\* A hyphenated option is reported under its camelCase name as well.
yargsParser(args) ==
    LET flag(on, names) == IF on THEN [k \in names |-> Bool(TRUE)] ELSE NoProps
        file == IF args.configJsonFile # ""
                THEN [k \in {"config-json-file", "configJsonFile"} |-> Str(args.configJsonFile)]
                ELSE NoProps
    IN  Obj(args.overrides.o @@ flag(args.help, {"help"})
            @@ flag(args.printConfig, {"print-config", "printConfig"}) @@ file
            @@ [k \in {"_"} |-> Arr(args.positional)])

\* fs.existsSync(path)
existsSync(fsys, path) == path.t = "string" /\ path.s \in DOMAIN fsys /\ fsys[path.s] # "absent"

\* JSON.parse(fs.readFileSync(path, 'utf8')) for a file that exists.
JSONparse(fsys, path, document) ==
    IF fsys[path.s] = "valid" THEN document ELSE Throw("SyntaxError")

\* schema.parse(merged) of the schema library.  A schema is given by the keys
\* it requires, the defaults it fills in for keys left undefined, and the
\* keys it keeps (unknown keys are dropped).
schemaParse(sch, value) ==
    IF ~IsMapping(value) \/ \E k \in sch.required : Member(value, k) = Undefined
    THEN Throw("ZodError")
    ELSE LET kept == (DOMAIN value.o \cap sch.known) \cup DOMAIN sch.fill
         IN  Obj([k \in kept |-> IF k \in DOMAIN value.o THEN value.o[k] ELSE sch.fill[k]])

\* JSON.stringify(value, null, 2): the text, given by the value it writes out.
JSONstringify(value) == [t |-> "json", n |-> 0, s |-> "", a |-> <<value>>, o |-> NoProps]

Event(op, arg) == [op |-> op, arg |-> arg]

UsageLines == <<Event("log", Str("Usage: <command> [--config-json-file <file>] [--<key> <value>]")),
                Event("log", Str("Options:")),
                Event("log", Str("  --config-json-file <file>  Path to config JSON file")),
                Event("log", Str("  --print-config             Display parsed config and exit")),
                Event("log", Str("  --<key> <value>            Override config value"))>>

----------------------------------------------------------------------------
(* getConfigGetter, line by line *)

\* The environment variable consulted before the command line.
ConfigJsonFile_EnvFirst(parsed, environment, opts) ==
    Or(environment,
       Or(Member(parsed, "configJsonFile"),
          Or(IF TypeOf(opts.jsonFile) = "string" THEN opts.jsonFile ELSE Null,
             Str("./config.json"))))

\* lines 144-147
ConfigJsonFile(parsed, environment, opts) ==
    Or(Member(parsed, "configJsonFile"),
       Or(environment,
          Or(IF TypeOf(opts.jsonFile) = "string" THEN opts.jsonFile ELSE Null,
             Str("./config.json"))))

\* line 149: whether the file is read at all.
ReadsFile(opts, fsys, path) == Truthy(opts.jsonFile) /\ existsSync(fsys, path)

\* line 154
Defaults(opts) == Nullish(IF opts.defaultsFn.defined THEN opts.defaultsFn.returns ELSE Undefined,
                          EmptyObject)

\* The prefix looked up as one key, the split forgotten.
PrefixedRaw_NoSplit(opts, raw) ==
    And(opts.prefix, IF opts.prefix.t = "string" THEN Walk(raw, <<opts.prefix.s>>) ELSE Undefined)

\* line 155
PrefixedRaw(opts, raw) ==
    And(opts.prefix, IF opts.prefix.t = "string" THEN Walk(raw, Split(opts.prefix.s)) ELSE Undefined)

\* The file's root content merged after its prefixed sub-tree.
Merged_RootAfterPrefix(defs, raw, prefixed, parsed) ==
    mergeWith(<<Nullish(defs, EmptyObject), Nullish(prefixed, EmptyObject), raw, parsed>>)

\* line 156
Merged(defs, raw, prefixed, parsed) ==
    mergeWith(<<Nullish(defs, EmptyObject), raw, Nullish(prefixed, EmptyObject), parsed>>)

\* The accessor testing the value for truthiness instead of undefined.
Getter_Falsy(config, keyPath, defaultValue) ==
    LET value == Walk(config, Split(keyPath))
    IN  IF ~Truthy(value)
        THEN IF defaultValue = Undefined
             THEN Throw("The config variable '" \o keyPath \o "' is not defined.")
             ELSE defaultValue
        ELSE value

\* lines 164-171: the returned accessor.
Getter(config, keyPath, defaultValue) ==
    LET value == Walk(config, Split(keyPath))
    IN  IF value = Undefined
        THEN IF defaultValue = Undefined
             THEN Throw("The config variable '" \o keyPath \o "' is not defined.")
             ELSE defaultValue
        ELSE value

\* The help flag never seen, so that resolution goes on.
HelpRequested_Never(parsed) == FALSE

\* line 134: if (parsedCommandLine.help)
HelpRequested(parsed) == Truthy(Member(parsed, "help"))

\* line 159: if (parsedCommandLine.printConfig)
PrintRequested(parsed) == Truthy(Member(parsed, "printConfig"))

\* lines 122-132
ParseCommandLine ==
    /\ pc = "start"
    /\ parsedCommandLine' = IF Truthy(options.commandLine) THEN yargsParser(argv)
                            ELSE EmptyObject
    /\ trace' = IF Len(Member(parsedCommandLine', "_").a) > 0
                THEN Append(trace, Event("warn", Member(parsedCommandLine', "_")))
                ELSE trace
    /\ pc' = "help"
    /\ UNCHANGED <<options, argv, env, files, content, schema, configJsonFile, rawData,
                   defaults, prefixedRaw, merged, data, thrown, exitCode, call, result,
                   harnessVars>>

\* lines 134-142, the flag given: process.exit ends the run.
Help ==
    /\ pc = "help"
    /\ HelpRequested(parsedCommandLine)
    /\ trace' = trace \o UsageLines \o <<Event("exit", Num(0))>>
    /\ exitCode' = 0
    /\ pc' = "exited"
    /\ UNCHANGED <<options, argv, env, files, content, schema, parsedCommandLine,
                   configJsonFile, rawData, defaults, prefixedRaw, merged, data, thrown,
                   call, result, harnessVars>>

\* lines 144-151
ReadJsonFile ==
    /\ pc = "help"
    /\ ~HelpRequested(parsedCommandLine)
    /\ configJsonFile' = ConfigJsonFile(parsedCommandLine, env, options)
    /\ LET path == configJsonFile'
           exists == existsSync(files, path)
           read == ReadsFile(options, files, path)
           parsed == IF read THEN JSONparse(files, path, content) ELSE EmptyObject
       IN  /\ trace' = trace
                       \o (IF Truthy(options.jsonFile)
                           THEN <<Event("existsSync", path)>> ELSE <<>>)
                       \o (IF read THEN <<Event("readFileSync", path)>> ELSE <<>>)
           /\ IF IsThrown(parsed)
              THEN /\ thrown' = parsed
                   /\ pc' = "threw"
                   /\ UNCHANGED rawData
              ELSE /\ rawData' = parsed
                   /\ pc' = "merge"
                   /\ UNCHANGED thrown
    /\ UNCHANGED <<options, argv, env, files, content, schema, parsedCommandLine,
                   defaults, prefixedRaw, merged, data, exitCode, call, result,
                   harnessVars>>

\* lines 153-156
MergeData ==
    /\ pc = "merge"
    /\ defaults' = Defaults(options)
    /\ prefixedRaw' = PrefixedRaw(options, rawData)
    /\ trace' = trace
                \o (IF options.defaultsFn.defined THEN <<Event("defaultsFn", Undefined)>>
                    ELSE <<>>)
                \o <<Event("mergeWith", Undefined)>>
    /\ LET value == Merged(defaults', rawData, prefixedRaw', parsedCommandLine)
       IN  IF IsThrown(value)
           THEN /\ thrown' = value
                /\ pc' = "threw"
                /\ UNCHANGED merged
           ELSE /\ merged' = value
                /\ pc' = "validate"
                /\ UNCHANGED thrown
    /\ UNCHANGED <<options, argv, env, files, content, schema, parsedCommandLine,
                   configJsonFile, rawData, data, exitCode, call, result, harnessVars>>

\* line 157
Validate ==
    /\ pc = "validate"
    /\ trace' = Append(trace, Event("schema.parse", merged))
    /\ LET value == schemaParse(schema, merged)
       IN  IF IsThrown(value)
           THEN /\ thrown' = value
                /\ pc' = "threw"
                /\ UNCHANGED data
           ELSE /\ data' = value
                /\ pc' = "validated"
                /\ UNCHANGED thrown
    /\ UNCHANGED <<options, argv, env, files, content, schema, parsedCommandLine,
                   configJsonFile, rawData, defaults, prefixedRaw, merged, exitCode,
                   call, result, harnessVars>>

\* The merged value printed instead of the validated one.
PrintConfig_Merged ==
    /\ pc = "validated"
    /\ PrintRequested(parsedCommandLine)
    /\ trace' = trace \o <<Event("log", JSONstringify(merged)), Event("exit", Num(0))>>
    /\ exitCode' = 0
    /\ pc' = "exited"
    /\ UNCHANGED <<options, argv, env, files, content, schema, parsedCommandLine,
                   configJsonFile, rawData, defaults, prefixedRaw, merged, data, thrown,
                   call, result, harnessVars>>

\* lines 159-162, the flag given: JSON.stringify(data) is logged, then
\* process.exit ends the run.
PrintConfig ==
    /\ pc = "validated"
    /\ PrintRequested(parsedCommandLine)
    /\ trace' = trace \o <<Event("log", JSONstringify(data)), Event("exit", Num(0))>>
    /\ exitCode' = 0
    /\ pc' = "exited"
    /\ UNCHANGED <<options, argv, env, files, content, schema, parsedCommandLine,
                   configJsonFile, rawData, defaults, prefixedRaw, merged, data, thrown,
                   call, result, harnessVars>>

\* line 164: the accessor is returned to the caller.
ReturnGetter ==
    /\ pc = "validated"
    /\ ~PrintRequested(parsedCommandLine)
    /\ pc' = "returned"
    /\ UNCHANGED <<options, argv, env, files, content, schema, parsedCommandLine,
                   configJsonFile, rawData, defaults, prefixedRaw, merged, data, trace,
                   thrown, exitCode, call, result, harnessVars>>

KeyPaths == {"v", "b", "v.x", "apps.x.v"}

Fallbacks == {Undefined, Num(7)}

\* lines 164-171: a call of the returned accessor.
Get ==
    /\ pc = "returned"
    /\ \E keyPath \in KeyPaths, defaultValue \in Fallbacks :
          /\ call' = [key |-> keyPath, defaultValue |-> defaultValue]
          /\ result' = Getter(data, keyPath, defaultValue)
    /\ UNCHANGED <<pc, options, argv, env, files, content, schema, parsedCommandLine,
                   configJsonFile, rawData, defaults, prefixedRaw, merged, data, trace,
                   thrown, exitCode, harnessVars>>

Next ==
    \/ ParseCommandLine
    \/ Help
    \/ ReadJsonFile
    \/ MergeData
    \/ Validate
    \/ PrintConfig
    \/ ReturnGetter
    \/ Get

----------------------------------------------------------------------------
(* The inputs of getConfigGetter *)

Paths == {"cli.json", "env.json", "opt.json", "./config.json"}

One(k, value) == Obj([j \in {k} |-> value])

Two(k1, value1, k2, value2) == Obj([j \in {k1, k2} |-> IF j = k1 THEN value1 ELSE value2])

\* The document of the specification's prefix example.
ExampleDoc == Two("apps", One("x", One("v", Num(1))), "v", Num(2))

Subtrees == {One("v", Num(1)), One("v", One("x", Num(1))), Num(7)}

AppsValues ==
    {Null, Num(5), Str("s"), Arr(<<One("v", Num(1))>>)}
    \cup {One("x", sub) : sub \in Subtrees}

RootValues == {Num(2), Null, One("x", Num(2)), Arr(<<Num(2)>>)}

\* What a valid configuration file may hold.
Docs ==
    {Two("apps", apps, "v", v) : apps \in AppsValues, v \in RootValues}
    \cup {One("apps", apps) : apps \in AppsValues}
    \cup {One("v", v) : v \in RootValues}
    \cup {EmptyObject, Num(5), Arr(<<One("v", Num(1))>>)}

Prefixes == {Null, Str("apps"), Str("apps.x"), Str("apps.0"), Str("apps.length")}

NoDefaultsFn == [defined |-> FALSE, returns |-> Undefined]

DefaultsFns ==
    {NoDefaultsFn}
    \cup {[defined |-> TRUE, returns |-> value] :
            value \in {Null, Two("v", Str(""), "b", Num(0)), One("v", One("x", Num(0))),
                       One("v", Arr(<<Num(0)>>))}}

Overrides == {EmptyObject, One("v", Num(3)), One("v", One("x", Num(3)))}

Schemas ==
    {[required |-> {}, fill |-> [k \in {"b"} |-> Bool(FALSE)],
      known |-> {"v", "b", "apps", "x", "0"}],
     [required |-> {"v"}, fill |-> [k \in {"b"} |-> Num(0)], known |-> {"v", "b"}]}

\* Runs that differ in where the configuration file is looked for.
InitPaths ==
    /\ options \in {[prefix |-> Null, jsonFile |-> jsonFile, commandLine |-> Bool(commandLine),
                     defaultsFn |-> NoDefaultsFn] :
                        jsonFile \in {Bool(FALSE), Bool(TRUE), Str("opt.json")},
                        commandLine \in BOOLEAN}
    /\ argv \in {[positional |-> positional, help |-> help, printConfig |-> FALSE,
                  configJsonFile |-> file, overrides |-> EmptyObject] :
                     positional \in {<<>>, <<Str("extra")>>}, help \in BOOLEAN,
                     file \in {"", "cli.json"}}
    /\ env \in {Undefined, Str("env.json")}
    /\ files \in [Paths -> {"absent", "invalid", "valid"}]
    /\ content = ExampleDoc
    /\ schema \in Schemas

\* Runs that differ in what the sources hold.
InitData ==
    /\ options \in {[prefix |-> prefix, jsonFile |-> Bool(TRUE), commandLine |-> Bool(TRUE),
                     defaultsFn |-> defaultsFn] :
                        prefix \in Prefixes, defaultsFn \in DefaultsFns}
    /\ argv \in {[positional |-> <<>>, help |-> FALSE, printConfig |-> printConfig,
                  configJsonFile |-> "", overrides |-> overrides] :
                     printConfig \in BOOLEAN, overrides \in Overrides}
    /\ env = Undefined
    /\ files = [path \in Paths |-> IF path = "./config.json" THEN "valid" ELSE "absent"]
    /\ content \in Docs
    /\ schema \in Schemas

Init ==
    /\ pc = "start"
    /\ InitPaths \/ InitData
    /\ parsedCommandLine = Undefined /\ configJsonFile = Undefined
    /\ rawData = Undefined /\ defaults = Undefined /\ prefixedRaw = Undefined
    /\ merged = Undefined /\ data = Undefined /\ trace = <<>>
    /\ thrown = Undefined /\ exitCode = -1 /\ call = NoCall /\ result = Undefined
    /\ valueA = Undefined /\ valueB = Undefined /\ valueC = Undefined
    /\ atKey = "" /\ mergeOut = NoMerge

Spec == Init /\ [][Next]_vars

----------------------------------------------------------------------------
(* Claims about deepConfigMerge, checked under MergeSpec *)

Paired == pc \in {"paired", "tripled"}

\* C2: merging onto a sequence A any defined B gives A followed by the elements
\* of B, or by B itself when B is no sequence; the elements are appended
\* unchanged, sequences among them too, so the length is len(A) + len(B).
C2_SequenceAppend ==
    (Paired /\ IsArray(valueA) /\ valueB # Undefined) =>
        LET appended == IF IsArray(valueB) THEN valueB.a ELSE <<valueB>>
        IN  /\ mergeOut.ab = Arr(valueA.a \o appended)
            /\ Len(mergeOut.ab.a) = Len(valueA.a) + Len(appended)

\* A mapping meets a defined override that is no mapping, at the top or at a
\* key both mappings hold, at any depth.
RECURSIVE Conflict(_, _)
Conflict(base, override) ==
    /\ IsMapping(base)
    /\ override # Undefined
    /\ \/ ~IsMapping(override)
       \/ \E k \in DOMAIN base.o \cap DOMAIN override.o : Conflict(base.o[k], override.o[k])

\* C3: whenever a mapping is merged with a defined override that is no mapping
\* (a scalar, null or a sequence), at any depth, the merge fails with the
\* merge-conflict error and produces no value.
C3_MappingConflictFails ==
    (Paired /\ Conflict(valueA, valueB)) =>
        /\ IsThrown(mergeOut.ab)
        /\ (~IsMapping(valueB) =>
               mergeOut.ab = Throw("Cannot merge " \o atKey \o " into an object from type "
                                   \o TypeOf(valueB)))

RECURSIVE HasSequence(_)
HasSequence(v) ==
    \/ IsArray(v)
    \/ IsMapping(v) /\ \E k \in DOMAIN v.o : HasSequence(v.o[k])

NoMergeThrew ==
    /\ ~IsThrown(mergeOut.ab) /\ ~IsThrown(mergeOut.bc)
    /\ ~IsThrown(mergeOut.left) /\ ~IsThrown(mergeOut.right)

\* C10 as stated: when none of the merges involved fails,
\* merge(merge(a, b), c) = merge(a, merge(b, c)).
C10_Associative ==
    (pc = "tripled" /\ NoMergeThrew) => mergeOut.left = mergeOut.right

\* C10 amended: when none of the merges involved fails and no sequence occurs
\* in a, b or c at any depth, merge(merge(a, b), c) = merge(a, merge(b, c)).
C10_AssociativeWithoutSequences ==
    (pc = "tripled" /\ NoMergeThrew
        /\ ~HasSequence(valueA) /\ ~HasSequence(valueB) /\ ~HasSequence(valueC))
    => mergeOut.left = mergeOut.right

\* Three mappings that share a key, one of them with a null member, merged both
\* ways into the same mapping, which is none of the three.
C10_Witness ==
    /\ pc = "tripled" /\ NoMergeThrew
    /\ IsMapping(valueA) /\ IsMapping(valueB) /\ IsMapping(valueC)
    /\ ~HasSequence(valueA) /\ ~HasSequence(valueB)
    /\ "a" \in DOMAIN valueA.o /\ IsMapping(valueA.o["a"])
    /\ "a" \in DOMAIN valueB.o /\ valueB.o["a"] = Null
    /\ "a" \in DOMAIN valueC.o /\ IsMapping(valueC.o["a"])
    /\ "b" \in DOMAIN valueB.o
    /\ mergeOut.left = mergeOut.right
    /\ mergeOut.left \notin {valueA, valueB, valueC}

----------------------------------------------------------------------------
(* Claims about getConfigGetter and its accessor, checked under Spec *)

EventsOf(ops) == SelectSeq(trace, LAMBDA e : e.op \in ops)

Happened(op) == \E i \in 1..Len(trace) : trace[i].op = op

IsScalar(v) == v.t \in {"null", "number", "boolean", "string"}

Defines(source, k) == IsMapping(source) /\ k \in DOMAIN source.o

\* The four sources, lowest precedence first.
Sources == <<Nullish(defaults, EmptyObject), rawData, Nullish(prefixedRaw, EmptyObject),
             parsedCommandLine>>

\* The keys some source defines.
DefinedKeys == UNION {DOMAIN Sources[j].o : j \in {i \in 1..4 : IsMapping(Sources[i])}}

Highest(S) == CHOOSE j \in S : \A i \in S : i <= j

\* C1: for every key that is a scalar in each source defining it, the value the
\* schema validator is handed is that of the highest-precedence source defining
\* it, the order being defaults, file root, prefixed sub-tree, command line.
C1_ScalarPrecedence ==
    \A i \in 1..Len(trace) : trace[i].op = "schema.parse" =>
        \A k \in DefinedKeys :
            LET defining == {j \in 1..4 : Defines(Sources[j], k)}
            IN  (defining # {} /\ \A j \in defining : IsScalar(Sources[j].o[k]))
                => Member(trace[i].arg, k) = Sources[Highest(defining)].o[k]

\* The validator is handed the prefixed v = 1 over the root v = 2 and the
\* default v, and the default b that no other source defines.
C1_Witness ==
    /\ Happened("schema.parse")
    /\ Defines(defaults, "v") /\ Defines(defaults, "b") /\ IsScalar(defaults.o["v"])
    /\ Defines(rawData, "v") /\ rawData.o["v"] = Num(2)
    /\ Defines(prefixedRaw, "v") /\ prefixedRaw.o["v"] = Num(1)
    /\ ~Defines(parsedCommandLine, "v")
    /\ merged.o["v"] = Num(1)
    /\ merged.o["b"] = defaults.o["b"]

Called == pc = "returned" /\ call # NoCall

\* C4: the accessor returns the value stored at the path whenever it is not
\* undefined, with or without a fallback; the fallback when the value is
\* absent and a fallback was given; and fails naming the key path otherwise.
C4_Accessor ==
    Called =>
        LET stored == Walk(data, Split(call.key))
        IN  /\ stored # Undefined => result = stored
            /\ (stored = Undefined /\ call.defaultValue # Undefined)
                   => result = call.defaultValue
            /\ (stored = Undefined /\ call.defaultValue = Undefined)
                   => result = Throw("The config variable '" \o call.key \o "' is not defined.")

\* A stored false is returned although a fallback was given.
C4_Witness ==
    /\ Called
    /\ call.key = "b" /\ call.defaultValue = Num(7)
    /\ data.o["b"] = Bool(FALSE)
    /\ result = Bool(FALSE)

\* The path the claim names: the first available of the command-line value,
\* the environment variable, the string jsonFile option and config.json.
ClaimedPath ==
    IF options.commandLine = Bool(TRUE) /\ argv.configJsonFile # ""
    THEN Str(argv.configJsonFile)
    ELSE IF env # Undefined THEN env
    ELSE IF options.jsonFile.t = "string" THEN options.jsonFile
    ELSE Str("./config.json")

PastRead == configJsonFile # Undefined

\* C5: with the jsonFile option false no file is looked at; otherwise exactly
\* the claimed path is tested for existence, and read when it exists, and no
\* other path is tested or read.
C5_JsonFileResolution ==
    LET fsEvents == EventsOf({"existsSync", "readFileSync"})
    IN  IF ~PastRead \/ options.jsonFile = Bool(FALSE)
        THEN fsEvents = <<>>
        ELSE fsEvents = <<Event("existsSync", ClaimedPath)>>
                        \o (IF files[ClaimedPath.s] # "absent"
                            THEN <<Event("readFileSync", ClaimedPath)>> ELSE <<>>)

\* The command-line path names no file while the three lower-ranked paths all
\* do: only the command-line path is tested and nothing is read.
C5_Witness ==
    /\ PastRead
    /\ ClaimedPath = Str("cli.json")
    /\ env = Str("env.json") /\ options.jsonFile = Str("opt.json")
    /\ files["cli.json"] = "absent"
    /\ \A path \in Paths \ {"cli.json"} : files[path] = "valid"
    /\ EventsOf({"existsSync", "readFileSync"}) = <<Event("existsSync", Str("cli.json"))>>
    /\ rawData = EmptyObject

PastMerge == Happened("mergeWith")

HasPrefix == options.prefix.t = "string"

\* The values the prefix path is walked through: the root and what each
\* segment but the last leads to.
RECURSIVE Intermediates(_, _)
Intermediates(root, segments) ==
    IF segments = <<>> THEN <<>>
    ELSE <<root>> \o Intermediates(OptionalMember(root, Head(segments)), Tail(segments))

AllMappings(values) == \A i \in 1..Len(values) : IsMapping(values[i])

\* The sub-tree at the path when every value on the way is a mapping.
RECURSIVE Subtree(_, _)
Subtree(root, segments) ==
    IF segments = <<>> THEN root
    ELSE IF IsMapping(root) /\ Head(segments) \in DOMAIN root.o
    THEN Subtree(root.o[Head(segments)], Tail(segments))
    ELSE Undefined

\* What the merge gives, or throws, without the prefixed source.
WithoutPrefixed == mergeWith(<<Nullish(defaults, EmptyObject), rawData, parsedCommandLine>>)

ContributesNothing ==
    /\ merged # Undefined => merged = WithoutPrefixed
    /\ merged = Undefined => thrown = WithoutPrefixed

\* C6 as stated: the prefix resolution yields undefined, and the prefixed
\* source contributes nothing, whenever a value on the way is not a mapping;
\* it yields the sub-tree only when every value on the way is a mapping.
C6_PrefixNeedsMappings ==
    (PastMerge /\ HasPrefix) =>
        LET segments == Split(options.prefix.s)
        IN  IF AllMappings(Intermediates(rawData, segments))
            THEN prefixedRaw = Subtree(rawData, segments)
            ELSE prefixedRaw = Undefined /\ ContributesNothing

\* value has a property named k.
HasProperty(value, k) ==
    CASE value.t = "object" -> k \in DOMAIN value.o
      [] value.t = "array" -> k = "length" \/ HasIndex(Len(value.a), k)
      [] value.t = "string" -> k = "length" \/ HasIndex(Len(value.s), k)
      [] OTHER -> FALSE

RECURSIVE PathExists(_, _)
PathExists(root, segments) ==
    \/ segments = <<>>
    \/ /\ HasProperty(root, Head(segments))
       /\ PathExists(OptionalMember(root, Head(segments)), Tail(segments))

\* C6 amended: the prefix resolution yields undefined, and the prefixed source
\* contributes nothing and raises no error, whenever some segment names no
\* property of the value reached so far (null, a number and a boolean have
\* none; a sequence or a string has its indices and its length); it yields the
\* sub-tree whenever every value on the way is a mapping holding the segment.
C6_PrefixFollowsProperties ==
    (PastMerge /\ HasPrefix) =>
        LET segments == Split(options.prefix.s)
        IN  /\ ~PathExists(rawData, segments) =>
                   prefixedRaw = Undefined /\ ContributesNothing
            /\ (PathExists(rawData, segments) /\ AllMappings(Intermediates(rawData, segments)))
                   => prefixedRaw = Subtree(rawData, segments)

\* The prefix apps.x runs into a sequence, which has no property x: the
\* resolution yields undefined and the merge goes through without it.
C6_Witness ==
    /\ PastMerge
    /\ options.prefix = Str("apps.x")
    /\ IsMapping(rawData) /\ "apps" \in DOMAIN rawData.o /\ IsArray(rawData.o["apps"])
    /\ prefixedRaw = Undefined
    /\ merged # Undefined /\ merged = WithoutPrefixed

HelpGiven == options.commandLine = Bool(TRUE) /\ argv.help

\* C7: with command-line processing on and the help flag given, the usage
\* text is printed and exit 0 requested before any existence test or read of
\* the file, call of defaultsFn, merge or validation; nothing is thrown.
C7_HelpFirst ==
    HelpGiven =>
        /\ EventsOf({"existsSync", "readFileSync", "defaultsFn", "mergeWith",
                     "schema.parse"}) = <<>>
        /\ thrown = Undefined
        /\ pc \in {"start", "help", "exited"}
        /\ pc = "exited" =>
               /\ exitCode = 0
               /\ EventsOf({"log", "exit"}) = UsageLines \o <<Event("exit", Num(0))>>

\* Help exits 0 although the file that would be read is not valid JSON.
C7_Witness ==
    /\ HelpGiven
    /\ pc = "exited" /\ exitCode = 0
    /\ Truthy(options.jsonFile)
    /\ files[ConfigJsonFile(parsedCommandLine, env, options).s] = "invalid"
    /\ schema.required # {}

IsConfigText(v) == v.t = "json"

\* C8: the configuration is printed, and exit 0 requested, only after the
\* merge and the validation succeeded, and what is printed is the validated
\* configuration; when the parse, the merge or the validation fails nothing is
\* printed and no exit is requested.
C8_PrintAfterValidation ==
    /\ \A i \in 1..Len(trace) : IsConfigText(trace[i].arg) =>
          /\ PrintRequested(parsedCommandLine)
          /\ \E j \in 1..(i - 1) : trace[j] = Event("schema.parse", merged)
          /\ ~IsThrown(schemaParse(schema, merged))
          /\ trace[i] = Event("log", JSONstringify(schemaParse(schema, merged)))
          /\ i + 1 = Len(trace) /\ trace[i + 1] = Event("exit", Num(0))
          /\ exitCode = 0
    /\ pc = "threw" =>
          /\ exitCode = -1
          /\ EventsOf({"log", "exit"}) = <<>>
    /\ (pc = "exited" /\ ~HelpGiven) =>
          \E i \in 1..Len(trace) : IsConfigText(trace[i].arg)

\* The printed configuration holds a default the merged value lacks.
C8_Witness ==
    /\ pc = "exited"
    /\ \E i \in 1..Len(trace) : trace[i] = Event("log", JSONstringify(data))
    /\ data # merged
    /\ "b" \in DOMAIN data.o /\ "b" \notin DOMAIN merged.o

\* The file line 149 reads exists and is not valid JSON.
FileInvalid ==
    LET path == ConfigJsonFile(parsedCommandLine, env, options)
    IN  ReadsFile(options, files, path) /\ files[path.s] = "invalid"

MergeResult == Merged(Defaults(options), rawData, PrefixedRaw(options, rawData),
                      parsedCommandLine)

\* The value the fold has accumulated before its j-th source.
Accumulated(j) == mergeWith(SubSeq(Sources, 1, j - 1))

\* Somewhere in the fold a mapping accumulated at a key meets a defined value
\* that is no mapping at the same key of the next source.
MergeConflict ==
    \E j \in 1..4 :
        /\ IsMapping(Sources[j])
        /\ ~IsThrown(Accumulated(j))
        /\ \E k \in DOMAIN Accumulated(j).o \cap DOMAIN Sources[j].o :
               Conflict(Accumulated(j).o[k], Sources[j].o[k])

ValidationFails == IsThrown(schemaParse(schema, MergeResult))

\* Every error raised on the way leaves getConfigGetter as the exception
\* thrown, no accessor is returned then, and a returned accessor reads the
\* validator's output.
RaisedErrorsPropagate ==
    /\ pc \in {"merge", "validate", "validated", "returned"} =>
          thrown = Undefined /\ ~FileInvalid
    /\ pc \in {"validate", "validated", "returned"} =>
          ~IsThrown(MergeResult) /\ merged = MergeResult
    /\ pc \in {"validated", "returned"} =>
          ~ValidationFails /\ data = schemaParse(schema, merged)
    /\ pc = "threw" =>
          /\ data = Undefined /\ call = NoCall /\ exitCode = -1
          /\ thrown = IF FileInvalid THEN Throw("SyntaxError")
                      ELSE IF IsThrown(MergeResult) THEN MergeResult
                      ELSE Throw("ZodError")
          /\ FileInvalid \/ IsThrown(MergeResult) \/ ValidationFails
    /\ thrown # Undefined => pc = "threw"
    /\ Called => result = Getter(schemaParse(schema, MergeResult), call.key, call.defaultValue)

\* C9: every fatal condition (the file exists and is not valid JSON, a merge
\* conflict, a validation failure) reaches the caller as an error and no
\* accessor is returned; an accessor is returned only when parsing, merging and
\* validation all succeeded, and it reads the validator's output.
C9_FatalConditionsPropagate ==
    /\ RaisedErrorsPropagate
    /\ pc = "returned" => ~FileInvalid /\ ~MergeConflict /\ ~ValidationFails

====
